---- MODULE Spec2Model ----
(***************************************************************************)
(* The switch component: the is_on query, the three entity services       *)
(* (turn_on, turn_off, toggle) registered by async_setup, and the device   *)
(* class resolution of SwitchEntity.                                       *)
(*                                                                         *)
(* The handlers are coroutines on one event loop: a handler runs without   *)
(* interruption up to the point where the driver's operation suspends, so  *)
(* each handler start is one atomic action and the driver's completion,    *)
(* failure or cancellation is a later action.                              *)
(***************************************************************************)
EXTENDS Integers, Sequences, FiniteSets, Bags, TLC

\* homeassistant.const values imported at lines 12-18
STATE_ON == "on"
STATE_OFF == "off"
SERVICE_TURN_ON == "turn_on"
SERVICE_TURN_OFF == "turn_off"
SERVICE_TOGGLE == "toggle"
\* the states an entity reports when it is neither on nor off
STATE_UNKNOWN == "unknown"
STATE_UNAVAILABLE == "unavailable"

\* SwitchDeviceClass, lines 44-48
OUTLET == "outlet"
SWITCH == "switch"
SwitchDeviceClass == {OUTLET, SWITCH}

\* Python's None
None == "None"

\* the entities the component holds, and an id that resolves to no entity
Entities == {"switch.e1", "switch.e2"}
MissingIds == {"switch.gone"}
Ids == Entities \cup MissingIds

\* service calls that may be in progress at once, and the targets they may
\* hold between them
MaxCalls == 2
MaxTargets == 2

Services == {SERVICE_TURN_ON, SERVICE_TURN_OFF, SERVICE_TOGGLE}
IsOnValues == {"True", "False", None}
StateValues == {STATE_ON, STATE_OFF, STATE_UNKNOWN, STATE_UNAVAILABLE}

VARIABLES
    attr_is_on,      \* entity -> switch.is_on, owned by the entity's driver
    states,          \* entity -> its last reported state in the state machine
    context_filter,  \* entity -> switch._context_filter
    calls,           \* the bag of service calls in progress
    confirmed,       \* entity -> the state its driver last wrote
    toggled,         \* entity -> the successive toggles seen on it, undisturbed
    attrs,           \* entity -> its instance attributes: a function whose
                     \* domain is the set of attributes that are present
    query,           \* the last is_on(hass, entity_id) query and its answer
    dc_read          \* the last read of an entity's device_class

routerVars == <<attr_is_on, states, context_filter, calls, confirmed, toggled>>
readVars == <<attrs, query, dc_read>>
vars == <<attr_is_on, states, context_filter, calls, confirmed, toggled,
          attrs, query, dc_read>>

----------------------------------------------------------------------------
\* helpers.entity.state_filter: a filter constructed with one target state
state_filter(target) == [target_state |-> target]

\* no filter attached yet
NoFilter == [target_state |-> None]

\* ToggleEntity.state: the state an available entity reports for its is_on
StateOf(v) ==
    IF v = None THEN STATE_UNKNOWN
    ELSE IF v = "True" THEN STATE_ON ELSE STATE_OFF

\* hass.states.get: the state of an id, None when the id has no state
StatesGet(entity_id) ==
    IF entity_id \in DOMAIN states THEN states[entity_id] ELSE None

\* hass.states.is_state
is_state(entity_id, state) ==
    LET s == StatesGet(entity_id) IN s # None /\ s = state

\* is_on that takes every state but "off" for on
is_on_unless_off(entity_id) == ~is_state(entity_id, STATE_OFF)

\* is_on(hass, entity_id), line 66
is_on(entity_id) == is_state(entity_id, STATE_ON)

----------------------------------------------------------------------------
\* One target of a call: where its handler stands, the driver operation it
\* dispatched, and the filter that operation found attached when it began.
NoTask == [st |-> "-", op |-> None, seen |-> NoFilter]
PendingTask == [st |-> "pending", op |-> None, seen |-> NoFilter]
NotFoundTask == [st |-> "EntityNotFound", op |-> None, seen |-> NoFilter]

Finished == {"ok", "CommandFailed", "Cancelled", "EntityNotFound"}

\* the calls in progress, each once
Active == BagToSet(calls)

\* the targets the calls in progress hold between them
TargetCount ==
    LET RECURSIVE Sum(_)
        Sum(S) == IF S = {} THEN 0
                  ELSE LET c == CHOOSE x \in S : TRUE
                       IN calls[c] * Cardinality(c.targets) + Sum(S \ {c})
    IN Sum(Active)

\* one call c of the bag goes on with t as its task on e
SetTask(c, e, t) ==
    (calls (-) SetToBag({c})) (+) SetToBag({[c EXCEPT !.task[e] = t]})

\* the calls whose driver operation on e is in flight
InFlight(e) == {c \in Active : c.task[e].st = "running"}

\* how many driver operations are in flight on e
InFlightCount(e) ==
    LET RECURSIVE Sum(_)
        Sum(S) == IF S = {} THEN 0
                  ELSE LET c == CHOOSE x \in S : TRUE
                       IN calls[c] + Sum(S \ {c})
    IN Sum(InFlight(e))

\* the driver's operation begins: it runs up to its first suspension and
\* finds cf attached to the entity
BeginOperation(c, e, op, cf) ==
    calls' = SetTask(c, e, [st |-> "running", op |-> op, seen |-> cf[e]])

\* switch.async_turn_off(), awaited at line 82
async_turn_off(c, e, cf) == BeginOperation(c, e, STATE_OFF, cf)

\* switch.async_turn_on(), awaited at line 90
async_turn_on(c, e, cf) == BeginOperation(c, e, STATE_ON, cf)

\* a turn_off handler that keeps the filter in one place shared by all the
\* entities of the component
async_handle_switch_off_service_shared_filter(c, e) ==
    LET cf == [x \in Entities |-> state_filter(STATE_OFF)] IN
    /\ context_filter' = cf
    /\ async_turn_off(c, e, cf)
    /\ UNCHANGED <<attr_is_on, states, confirmed>>

\* lines 76-82
async_handle_switch_off_service(c, e) ==
    LET cf == [context_filter EXCEPT ![e] = state_filter(STATE_OFF)] IN
    /\ context_filter' = cf
    /\ async_turn_off(c, e, cf)
    /\ UNCHANGED <<attr_is_on, states, confirmed>>

\* a turn_on handler that attaches its filter only when the entity has none,
\* so that a filter attached earlier stays
async_handle_switch_on_service_first_filter_wins(c, e) ==
    LET cf == IF context_filter[e] = NoFilter
              THEN [context_filter EXCEPT ![e] = state_filter(STATE_ON)]
              ELSE context_filter IN
    /\ context_filter' = cf
    /\ async_turn_on(c, e, cf)
    /\ UNCHANGED <<attr_is_on, states, confirmed>>

\* a turn_on handler that also records the commanded state as the entity's
\* state before the driver has confirmed it
async_handle_switch_on_service_optimistic(c, e) ==
    LET cf == [context_filter EXCEPT ![e] = state_filter(STATE_ON)] IN
    /\ context_filter' = cf
    /\ async_turn_on(c, e, cf)
    /\ attr_is_on' = [attr_is_on EXCEPT ![e] = "True"]
    /\ states' = [states EXCEPT ![e] = STATE_ON]
    /\ UNCHANGED confirmed

\* lines 84-90
async_handle_switch_on_service(c, e) ==
    LET cf == [context_filter EXCEPT ![e] = state_filter(STATE_ON)] IN
    /\ context_filter' = cf
    /\ async_turn_on(c, e, cf)
    /\ UNCHANGED <<attr_is_on, states, confirmed>>

\* a toggle handler that tests `switch.is_on is not False`: an unknown is_on
\* is taken for on
async_handle_toggle_service_unknown_is_on(c, e) ==
    IF attr_is_on[e] # "False"
    THEN async_handle_switch_off_service(c, e)
    ELSE async_handle_switch_on_service(c, e)

\* a toggle handler that returns without invoking anything when is_on is
\* unknown
async_handle_toggle_service_skips_unknown(c, e) ==
    IF attr_is_on[e] = None
    THEN /\ calls' = SetTask(c, e, [c.task[e] EXCEPT !.st = "ok"])
         /\ UNCHANGED <<attr_is_on, states, context_filter, confirmed>>
    ELSE IF attr_is_on[e] = "True"
    THEN async_handle_switch_off_service(c, e)
    ELSE async_handle_switch_on_service(c, e)

\* a toggle handler that goes on only once is_on is known
async_handle_toggle_service_waits_for_known(c, e) ==
    /\ attr_is_on[e] # None
    /\ IF attr_is_on[e] = "True"
       THEN async_handle_switch_off_service(c, e)
       ELSE async_handle_switch_on_service(c, e)

\* a toggle handler that is suspended between the read of is_on and the
\* handler it goes on with: the first step keeps the direction decided, the
\* second attaches the filter and invokes the operation
async_handle_toggle_service_suspended(c, e) ==
    IF c.task[e].op = None
    THEN /\ calls' = SetTask(c, e, [c.task[e] EXCEPT !.op =
                        IF attr_is_on[e] = "True" THEN STATE_OFF ELSE STATE_ON])
         /\ UNCHANGED <<attr_is_on, states, context_filter, confirmed>>
    ELSE IF c.task[e].op = STATE_OFF
    THEN async_handle_switch_off_service(c, e)
    ELSE async_handle_switch_on_service(c, e)

\* a toggle handler that never reads is_on and always turns on
async_handle_toggle_service_always_on(c, e) ==
    async_handle_switch_on_service(c, e)

\* lines 92-99: `if switch.is_on` is Python truthiness, so None goes to else
async_handle_toggle_service(c, e) ==
    IF attr_is_on[e] = "True"
    THEN async_handle_switch_off_service(c, e)
    ELSE async_handle_switch_on_service(c, e)

\* lines 101-109: the handler registered for each service
Handler(service, c, e) ==
    CASE service = SERVICE_TURN_OFF -> async_handle_switch_off_service(c, e)
      [] service = SERVICE_TURN_ON -> async_handle_switch_on_service(c, e)
      [] service = SERVICE_TOGGLE -> async_handle_toggle_service(c, e)

----------------------------------------------------------------------------
\* The record of successive toggles on one entity: the states the entity had
\* before each of the last (at most two) toggles that ran one after the other
\* with nothing else touching the entity, and whether the last is running.
\* When a second toggle begins while the first of the record is in flight and
\* nothing else has touched the entity, overlap counts the two: 2 while both
\* are in flight, 1 from the moment one of them has succeeded.
NoToggles == [before |-> <<>>, busy |-> FALSE, overlap |-> 0]

Disturb(e) == toggled' = [toggled EXCEPT ![e] = NoToggles]

ToggleBegins(e) ==
    LET t == toggled[e]
        kept == IF t.overlap # 0 THEN <<>>
                ELSE IF Len(t.before) = 2 THEN Tail(t.before) ELSE t.before
    IN toggled' = [toggled EXCEPT ![e] =
        IF InFlight(e) = {} /\ states[e] \in {STATE_ON, STATE_OFF}
        THEN [before |-> Append(kept, states[e]), busy |-> TRUE, overlap |-> 0]
        ELSE IF t.busy /\ Len(t.before) = 1 /\ t.overlap = 0
        THEN [t EXCEPT !.overlap = 2]
        ELSE NoToggles]

ToggleEnds(e) ==
    toggled' = [toggled EXCEPT ![e] =
        IF @.overlap = 2 THEN [@ EXCEPT !.overlap = 1]
        ELSE [@ EXCEPT !.busy = FALSE]]

----------------------------------------------------------------------------
\* A caller issues a service call on a set of targets. The targets are
\* resolved first: one that resolves to no entity is reported as such and the
\* others go on.
\* a resolution that fails the whole call when one target is missing
NewCall_all_or_nothing(service, targets) ==
    [service |-> service, targets |-> targets,
     task |-> [e \in Ids |->
                 IF e \notin targets THEN NoTask
                 ELSE IF targets \ Entities # {} THEN NotFoundTask
                 ELSE PendingTask]]

NewCall(service, targets) ==
    [service |-> service, targets |-> targets,
     task |-> [e \in Ids |->
                 IF e \notin targets THEN NoTask
                 ELSE IF e \notin Entities THEN NotFoundTask
                 ELSE PendingTask]]

Call(service, targets) ==
    /\ BagCardinality(calls) < MaxCalls
    /\ TargetCount + Cardinality(targets) <= MaxTargets
    /\ calls' = calls (+) SetToBag({NewCall(service, targets)})
    /\ UNCHANGED <<attr_is_on, states, context_filter, confirmed, toggled, readVars>>

\* The handler of the call's service runs on one resolved target.
Dispatch(c, e) ==
    /\ c.task[e].st = "pending"
    /\ Handler(c.service, c, e)
    /\ IF c.service = SERVICE_TOGGLE THEN ToggleBegins(e) ELSE Disturb(e)
    /\ UNCHANGED readVars

\* a handler that takes the filter off its entity when the await returns
HandlerReturns_clearing_filter(e) ==
    context_filter' = [context_filter EXCEPT ![e] = NoFilter]

\* lines 82 and 90: the await of the driver's operation is the handler's last
\* statement, it has no try/finally: when the await returns, raises or is
\* cancelled the handler ends and the filter stays
HandlerReturns(e) == UNCHANGED context_filter

\* the filter a state-change event of e observes when it is emitted now
EventFilter(e) == context_filter[e]

\* The driver writes the entity's state.
WriteState(e, v) ==
    /\ attr_is_on' = [attr_is_on EXCEPT ![e] = v]
    /\ states' = [states EXCEPT ![e] = StateOf(v)]
    /\ confirmed' = [confirmed EXCEPT ![e] = StateOf(v)]

\* The driver's operation completes: the state follows the commanded direction.
OperationSucceeds(c, e) ==
    /\ c.task[e].st = "running"
    /\ WriteState(e, IF c.task[e].op = STATE_ON THEN "True" ELSE "False")
    /\ calls' = SetTask(c, e, [c.task[e] EXCEPT !.st = "ok"])
    /\ IF toggled[e].busy THEN ToggleEnds(e) ELSE Disturb(e)
    /\ HandlerReturns(e)
    /\ UNCHANGED readVars

\* The driver's operation raises: the handler has no except clause and the
\* error reaches the dispatcher, which records it for this target.
OperationFails(c, e) ==
    /\ c.task[e].st = "running"
    /\ calls' = SetTask(c, e, [c.task[e] EXCEPT !.st = "CommandFailed"])
    /\ Disturb(e)
    /\ HandlerReturns(e)
    /\ UNCHANGED <<attr_is_on, states, confirmed, readVars>>

\* The command is cancelled while it awaits the driver's operation.
Cancel(c, e) ==
    /\ c.task[e].st = "running"
    /\ calls' = SetTask(c, e, [c.task[e] EXCEPT !.st = "Cancelled"])
    /\ Disturb(e)
    /\ HandlerReturns(e)
    /\ UNCHANGED <<attr_is_on, states, confirmed, readVars>>

\* The driver reports a state no command asked for.
DriverReport(e, v) ==
    /\ v # attr_is_on[e]
    /\ WriteState(e, v)
    /\ Disturb(e)
    /\ UNCHANGED <<context_filter, calls, readVars>>

CallDone(call) == \A e \in call.targets : call.task[e].st \in Finished

\* the per-target outcome the caller receives
Result(call) == [e \in call.targets |-> call.task[e].st]

\* The call returns its result to the caller.
Return(c) ==
    /\ CallDone(c)
    /\ calls' = calls (-) SetToBag({c})
    /\ UNCHANGED <<attr_is_on, states, context_filter, confirmed, toggled, readVars>>

----------------------------------------------------------------------------
\* hasattr(obj, name): the attribute is present, whatever its value
hasattr(obj, name) == name \in DOMAIN obj

\* a device_class that consults the description before the override
device_class_description_first(self) ==
    IF hasattr(self, "entity_description")
    THEN self["entity_description"].device_class
    ELSE IF hasattr(self, "_attr_device_class")
    THEN self["_attr_device_class"]
    ELSE None

\* SwitchEntity.device_class, lines 139-146
device_class(self) ==
    IF hasattr(self, "_attr_device_class")
    THEN self["_attr_device_class"]
    ELSE IF hasattr(self, "entity_description")
    THEN self["entity_description"].device_class
    ELSE None

\* the values of SwitchDeviceClass | str | None, lines 130 and 137
DeviceClassValues == SwitchDeviceClass \cup {None}

\* SwitchEntityDescription, lines 126-130
SwitchEntityDescription(dc) == [device_class |-> dc]

\* the instance attributes an entity may hold
Objects ==
    LET overrides == {<<>>} \cup
            {[_attr_device_class |-> v] : v \in DeviceClassValues}
        descriptions == {<<>>} \cup
            {[entity_description |-> SwitchEntityDescription(v)] :
                v \in DeviceClassValues}
    IN {o @@ d : o \in overrides, d \in descriptions}

PyBool(b) == IF b THEN "True" ELSE "False"

\* A caller asks is_on(hass, entity_id).
Query(entity_id) ==
    /\ query' = [entity_id |-> entity_id, result |-> PyBool(is_on(entity_id))]
    /\ UNCHANGED <<routerVars, attrs, dc_read>>

\* The state machine receives a state for an entity.
StateSet(e, s) ==
    /\ StatesGet(e) # s
    /\ states' = (e :> s) @@ states
    /\ UNCHANGED <<attr_is_on, context_filter, calls, confirmed, toggled, readVars>>

\* The state machine drops the state of an entity.
StateRemove(e) ==
    /\ e \in DOMAIN states
    /\ states' = [x \in DOMAIN states \ {e} |-> states[x]]
    /\ UNCHANGED <<attr_is_on, context_filter, calls, confirmed, toggled, readVars>>

\* self._attr_device_class = v, or self.entity_description = v
SetAttr(e, name, v) ==
    /\ attrs' = [attrs EXCEPT ![e] = (name :> v) @@ attrs[e]]
    /\ UNCHANGED <<routerVars, query, dc_read>>

\* del self._attr_device_class, or del self.entity_description
DelAttr(e, name) ==
    /\ hasattr(attrs[e], name)
    /\ attrs' = [attrs EXCEPT ![e] =
                    [n \in DOMAIN attrs[e] \ {name} |-> attrs[e][n]]]
    /\ UNCHANGED <<routerVars, query, dc_read>>

\* the record of a read of device_class: the entity and the value returned,
\* the parity of the number of reads made so far, and the read before this one
DeviceClassRead(e, v) ==
    [entity_id |-> e, result |-> v, parity |-> 1 - dc_read.parity,
     prev_id |-> dc_read.entity_id, prev_result |-> dc_read.result]

\* a device_class that computes its value on the first read of an entity and
\* returns the value it holds for the entity from then on
ReadDeviceClass_cached(e) ==
    /\ dc_read' = DeviceClassRead(e, IF dc_read.entity_id = e
                                     THEN dc_read.result
                                     ELSE device_class(attrs[e]))
    /\ UNCHANGED <<routerVars, attrs, query>>

\* A caller reads switch.device_class.
ReadDeviceClass(e) ==
    /\ dc_read' = DeviceClassRead(e, device_class(attrs[e]))
    /\ UNCHANGED <<routerVars, attrs, query>>

----------------------------------------------------------------------------
NoRead == [entity_id |-> None, result |-> None]

\* no read of device_class made yet
NoDeviceClassRead ==
    [entity_id |-> None, result |-> None, parity |-> 0,
     prev_id |-> None, prev_result |-> None]

InitRouter ==
    /\ attr_is_on \in [Entities -> IsOnValues]
    /\ states = [e \in Entities |-> StateOf(attr_is_on[e])]
    /\ confirmed = states
    /\ context_filter = [e \in Entities |-> NoFilter]
    /\ toggled = [e \in Entities |-> NoToggles]
    /\ calls = EmptyBag

Init ==
    /\ InitRouter
    /\ attrs = [e \in Entities |-> <<>>]
    /\ query = NoRead
    /\ dc_read = NoDeviceClassRead

Next ==
    \/ \E s \in Services, T \in (SUBSET Ids) \ {{}} : Call(s, T)
    \/ \E c \in Active, e \in Entities : Dispatch(c, e)
    \/ \E c \in Active, e \in Entities : OperationSucceeds(c, e)
    \/ \E c \in Active, e \in Entities : OperationFails(c, e)
    \/ \E c \in Active, e \in Entities : Cancel(c, e)
    \/ \E e \in Entities, v \in IsOnValues : DriverReport(e, v)
    \/ \E c \in Active : Return(c)

Spec == Init /\ [][Next]_vars

\* The router under a fair scheduler. The event loop runs every handler that is
\* ready, so the dispatch of a waiting target is weakly fair; every started
\* operation ends, so its ending is weakly fair too. A new command for an
\* entity arrives only when no earlier command still waits for that entity:
\* the calls are a bag, and this keeps one waiting target apart from the next.
Waiting(e) == {c \in Active : c.task[e].st = "pending"}

CallWhenReached(service, targets) ==
    /\ \A e \in targets \cap Entities : Waiting(e) = {}
    /\ Call(service, targets)

OperationEnds(c, e) ==
    \/ OperationSucceeds(c, e)
    \/ OperationFails(c, e)
    \/ Cancel(c, e)

NextFair ==
    \/ \E s \in Services, T \in (SUBSET Ids) \ {{}} : CallWhenReached(s, T)
    \/ \E c \in Active, e \in Entities : Dispatch(c, e)
    \/ \E c \in Active, e \in Entities : OperationEnds(c, e)
    \/ \E e \in Entities, v \in IsOnValues : DriverReport(e, v)
    \/ \E c \in Active : Return(c)

Fairness ==
    \A e \in Entities :
        /\ WF_vars(\E c \in Active : Dispatch(c, e))
        /\ WF_vars(\E c \in Active : OperationEnds(c, e))

SpecFair == Init /\ [][NextFair]_vars /\ Fairness

\* The is_on query against every state the state machine may hold.
InitQuery ==
    /\ InitRouter
    /\ attrs = [e \in Entities |-> <<>>]
    /\ query = NoRead
    /\ dc_read = NoDeviceClassRead

NextQuery ==
    \/ \E id \in Ids : Query(id)
    \/ \E e \in Entities, s \in StateValues : StateSet(e, s)
    \/ \E e \in Entities : StateRemove(e)

SpecQuery == InitQuery /\ [][NextQuery]_vars

\* The device class of an entity under every combination of its attributes.
InitDeviceClass ==
    /\ InitRouter
    /\ attr_is_on = [e \in Entities |-> None]
    /\ attrs \in [Entities -> Objects]
    /\ query = NoRead
    /\ dc_read = NoDeviceClassRead

NextDeviceClass ==
    \/ \E e \in Entities, v \in DeviceClassValues :
            SetAttr(e, "_attr_device_class", v)
    \/ \E e \in Entities, v \in DeviceClassValues :
            SetAttr(e, "entity_description", SwitchEntityDescription(v))
    \/ \E e \in Entities, n \in {"_attr_device_class", "entity_description"} :
            DelAttr(e, n)
    \/ \E e \in Entities : ReadDeviceClass(e)

SpecDeviceClass == InitDeviceClass /\ [][NextDeviceClass]_vars

----------------------------------------------------------------------------
\* Properties.

Filters == {state_filter(STATE_ON), state_filter(STATE_OFF)}

\* the state the entity reports once the operation op has succeeded
Commanded(op) == IF op = STATE_ON THEN STATE_ON ELSE STATE_OFF

\* the direction the service asks for, where the service fixes it
ServiceDirection(service) ==
    IF service = SERVICE_TURN_ON THEN STATE_ON ELSE STATE_OFF

\* a state-change event of e is emitted in this step
Emitted(e) == states'[e] # states[e]

\* in this step the handler of call c has begun the operation op on e
Begun(c, e, op) ==
    /\ c.task[e].st = "pending"
    /\ \E sn \in Filters \cup {NoFilter} :
          calls' = SetTask(c, e, [st |-> "running", op |-> op, seen |-> sn])

\* C1: turn_on attaches the filter "on", and turn_off the filter "off", to
\* each target before the driver's operation begins, and every state-change
\* event emitted while that operation runs observes that filter.
C1_FilterObservedDuringOperation ==
    /\ [](\A c \in Active, e \in Entities :
            c.task[e].st = "running" =>
              /\ c.task[e].seen = state_filter(c.task[e].op)
              /\ c.service # SERVICE_TOGGLE =>
                    c.task[e].op = ServiceDirection(c.service))
    /\ [][\A c \in Active, e \in Entities :
            (c.task[e].st = "running" /\ Emitted(e)) =>
                EventFilter(e) = state_filter(c.task[e].op)]_vars

\* C2: at most one driver operation is in flight on an entity at any time.
C2_OneOperationInFlight ==
    \A e \in Entities : InFlightCount(e) <= 1

\* C3: while the operation a command started is in flight on an entity, the
\* entity's context filter keeps the target state that command attached.
C3_FilterKeptWhileInFlight ==
    \A c \in Active, e \in Entities :
        c.task[e].st = "running" => context_filter[e] = state_filter(c.task[e].op)

\* C4: toggle decides for each target on its own: a target whose is_on is
\* true at the read gets the filter "off" and turn_off, any other target (off
\* or unknown) gets the filter "on" and turn_on.
C4_ToggleDecidesPerTarget ==
    [][\A c \in Active, e \in Entities :
        (c.service = SERVICE_TOGGLE /\ \E op \in {STATE_ON, STATE_OFF} : Begun(c, e, op)) =>
            LET d == IF attr_is_on[e] = "True" THEN STATE_OFF ELSE STATE_ON IN
            /\ calls' = SetTask(c, e, [st |-> "running", op |-> d,
                                       seen |-> state_filter(d)])
            /\ context_filter'[e] = state_filter(d)
            /\ \A o \in Entities \ {e} : context_filter'[o] = context_filter[o]]_vars

\* one toggle call has dispatched turn_on to one target and turn_off to another
C4_Witness ==
    \E c \in Active, e1 \in Entities, e2 \in Entities :
        /\ c.service = SERVICE_TOGGLE
        /\ c.task[e1].st = "running" /\ c.task[e1].op = STATE_ON
        /\ c.task[e2].st = "running" /\ c.task[e2].op = STATE_OFF

\* C5: two toggles of an entity whose state is on or off, run one after the
\* other, both succeeding and with nothing else touching the entity, leave it
\* in its original state.
C5_ToggleTwiceRestores ==
    \A e \in Entities :
        (Len(toggled[e].before) = 2 /\ ~toggled[e].busy) =>
            /\ states[e] = toggled[e].before[1]
            /\ is_on(e) <=> (toggled[e].before[1] = STATE_ON)

\* a second successive toggle has completed on an entity
C5_Witness ==
    \E e \in Entities : Len(toggled[e].before) = 2 /\ ~toggled[e].busy

\* C6: when the driver's operation of a command fails, the entity's reported
\* state is the one its driver last wrote, before the command or beside it:
\* the failed command has changed neither the state nor is_on.
C6_FailureLeavesState ==
    \A c \in Active, e \in Entities :
        c.task[e].st = "CommandFailed" =>
            /\ states[e] = confirmed[e]
            /\ is_on(e) <=> (confirmed[e] = STATE_ON)
            /\ attr_is_on[e] = "True" <=> (confirmed[e] = STATE_ON)

\* a turn_on has failed on an entity that is not on
C6_Witness ==
    \E c \in Active, e \in Entities :
        /\ c.task[e].st = "CommandFailed"
        /\ c.task[e].op = STATE_ON
        /\ states[e] # STATE_ON

\* C7: a call is not atomic across its targets: a target that resolves to no
\* entity is reported EntityNotFound, every other target has its operation
\* invoked and is reported with its own outcome, and a target reported ok
\* had its state written by its driver.
C7_BatchNotAtomic ==
    /\ [](\A c \in Active :
            /\ \A e \in c.targets \ Entities : c.task[e].st = "EntityNotFound"
            /\ \A e \in c.targets \cap Entities :
                  /\ c.task[e].st \in {"pending", "running", "ok",
                                       "CommandFailed", "Cancelled"}
                  /\ CallDone(c) =>
                        /\ Result(c)[e] \in {"ok", "CommandFailed", "Cancelled"}
                        /\ c.task[e].op \in {STATE_ON, STATE_OFF}
                        /\ c.task[e].seen \in Filters)
    /\ [][\A c \in Active, e \in Entities :
            (c.task[e].st = "running"
                /\ calls' = SetTask(c, e, [c.task[e] EXCEPT !.st = "ok"])) =>
                    states'[e] = Commanded(c.task[e].op)]_vars

\* a call on a missing target and an entity is done: the entity succeeded
C7_Witness ==
    \E c \in Active, e \in Entities, m \in MissingIds :
        /\ c.targets = {e, m}
        /\ CallDone(c)
        /\ Result(c)[e] = "ok"
        /\ Result(c)[m] = "EntityNotFound"

\* C8: is_on(entity_id) answers true exactly when the id has a state and that
\* state is "on"; for "off", unknown, unavailable and an id with no state it
\* answers false, and it always answers.
C8_IsOnIffStateOn ==
    [][query' # query =>
        LET id == query'.entity_id IN
        /\ query'.result \in {"True", "False"}
        /\ query'.result = "True" <=> (id \in DOMAIN states /\ states[id] = STATE_ON)]_vars

\* the query has answered false for an id that has no state
C8_Witness ==
    /\ query.entity_id \notin DOMAIN states
    /\ query.entity_id # None
    /\ query.result = "False"

\* the override and the description default as optional values: an attribute
\* that is absent and one that holds None both count as not given
Optional(self, name) == IF hasattr(self, name) THEN self[name] ELSE None

OptionalDefault(self) ==
    IF hasattr(self, "entity_description")
    THEN self["entity_description"].device_class
    ELSE None

\* C9, as stated: the resolved class is the override if one is given, else
\* the description's class if given, else None, where an override of None
\* counts as not given.
C9_OverrideElseDefault ==
    [][dc_read' # dc_read =>
        LET self == attrs[dc_read'.entity_id]
            o == Optional(self, "_attr_device_class")
        IN dc_read'.result = IF o # None THEN o ELSE OptionalDefault(self)]_vars

\* C9, amended: the resolved class is the value of the override attribute if
\* that attribute is present, even when the value is None; else the
\* description's class if a description is present; else None.
C9_PresentOverrideElseDefault ==
    [][dc_read' # dc_read =>
        LET self == attrs[dc_read'.entity_id] IN
        /\ hasattr(self, "_attr_device_class") =>
              dc_read'.result = self["_attr_device_class"]
        /\ (~hasattr(self, "_attr_device_class")
              /\ hasattr(self, "entity_description")) =>
              dc_read'.result = self["entity_description"].device_class
        /\ (~hasattr(self, "_attr_device_class")
              /\ ~hasattr(self, "entity_description")) =>
              dc_read'.result = None]_vars

\* a read has resolved to the description's "outlet" with no override present
C9_Witness ==
    /\ dc_read.entity_id \in Entities
    /\ LET self == attrs[dc_read.entity_id] IN
        /\ ~hasattr(self, "_attr_device_class")
        /\ hasattr(self, "entity_description")
        /\ self["entity_description"].device_class = OUTLET
    /\ dc_read.result = OUTLET

\* C10: after a command was cancelled with its filter attached and its
\* operation not completed, the entity's reported state is the state its
\* driver last confirmed.
C10_CancelCommitsNothing ==
    \A c \in Active, e \in Entities :
        c.task[e].st = "Cancelled" =>
            /\ states[e] = confirmed[e]
            /\ StateOf(attr_is_on[e]) = confirmed[e]

\* a turn_on was cancelled with its filter still attached, the entity not on
C10_Witness ==
    \E c \in Active, e \in Entities :
        /\ c.task[e].st = "Cancelled"
        /\ c.task[e].op = STATE_ON
        /\ context_filter[e] = state_filter(STATE_ON)
        /\ states[e] # STATE_ON

\* in this step the handler of some call has begun an operation on e
BegunOn(e) ==
    \E c \in Active, op \in {STATE_ON, STATE_OFF} : Begun(c, e, op)

\* C11: a handler step on an entity writes that entity's context filter and
\* nothing else of any entity: no state, no is_on, no other entity's filter;
\* and whenever an entity's state changes, its driver wrote it.
C11_RouterWritesOnlyOwnFilter ==
    [][\A e \in Entities :
        /\ BegunOn(e) =>
              /\ states' = states
              /\ attr_is_on' = attr_is_on
              /\ \A o \in Entities \ {e} :
                    BegunOn(o) \/ context_filter'[o] = context_filter[o]
        /\ (states'[e] # states[e] \/ attr_is_on'[e] # attr_is_on[e]) =>
              /\ ~BegunOn(e)
              /\ confirmed'[e] = states'[e]
              /\ \A o \in Entities \ {e} :
                    states'[o] = states[o] /\ attr_is_on'[o] = attr_is_on[o]]_vars

\* a command runs on one entity with its filter attached and the state not
\* yet the commanded one, while the other entity has no filter at all
C11_Witness ==
    \E c \in Active, e \in Entities, o \in Entities :
        /\ o # e
        /\ c.task[e].st = "running"
        /\ context_filter[e] = state_filter(c.task[e].op)
        /\ states[e] # Commanded(c.task[e].op)
        /\ context_filter[o] = NoFilter
        /\ states[o] = STATE_ON

\* the handler of this task has run: the command was invoked on the target
Invoked(task) == task.st \in {"running", "ok", "CommandFailed", "Cancelled"}

\* C12: every invocation of a command on a target has attached one filter to
\* it, the filter of the direction the command results in: turn_on attaches
\* "on", turn_off attaches "off", toggle one of the two, whatever filter the
\* target carried before; a target not yet reached has had nothing attached.
C12_FilterFollowsDirection ==
    \A c \in Active : \A e \in c.targets \cap Entities :
        LET task == c.task[e] IN
        /\ Invoked(task) =>
              /\ task.op \in {STATE_ON, STATE_OFF}
              /\ task.seen = state_filter(task.op)
              /\ c.service = SERVICE_TURN_ON => task.op = STATE_ON
              /\ c.service = SERVICE_TURN_OFF => task.op = STATE_OFF
        /\ task.st = "pending" => task.seen = NoFilter

\* two commands of opposite directions were invoked on one entity: the later
\* of the two attached its filter over the other's
C12_Witness ==
    \E c \in Active, d \in Active, e \in Entities :
        /\ Invoked(c.task[e]) /\ Invoked(d.task[e])
        /\ c.task[e].op = STATE_ON /\ d.task[e].op = STATE_OFF
        /\ c.task[e].seen = state_filter(STATE_ON)
        /\ d.task[e].seen = state_filter(STATE_OFF)

\* the values a task of a call can take
Tasks ==
    [st : {"pending", "running"} \cup Finished,
     op : {None, STATE_ON, STATE_OFF},
     seen : Filters \cup {NoFilter}]

\* C13: a driver operation is invoked only for a target still waiting for it,
\* so at most once per command and target; it is one of turn-on and turn-off,
\* for toggle too; the task then only ends, as succeeded, failed or
\* cancelled, keeps its direction, and once ended it never changes again: a
\* failed operation stays reported as failed and is not invoked again.
C13_OperationInvokedOnce ==
    [][\A c \in Active : \A e \in c.targets : \A t \in Tasks :
        (t # c.task[e] /\ calls' = SetTask(c, e, t)) =>
            /\ c.task[e].st \notin Finished
            /\ c.task[e].st = "pending" =>
                  t.st = "running" /\ t.op \in {STATE_ON, STATE_OFF}
            /\ c.task[e].st = "running" =>
                  /\ t.st \in {"ok", "CommandFailed", "Cancelled"}
                  /\ t.op = c.task[e].op]_vars

\* a toggle on two targets is complete: the operation failed on one target
\* and is reported so, it succeeded on the other, and each was one of the
\* two operations
C13_Witness ==
    \E c \in Active : \E e \in Entities, o \in Entities :
        /\ c.service = SERVICE_TOGGLE
        /\ CallDone(c)
        /\ c.task[e].st = "CommandFailed"
        /\ c.task[o].st = "ok"
        /\ c.task[e].op \in {STATE_ON, STATE_OFF}
        /\ c.task[o].op \in {STATE_ON, STATE_OFF}
        /\ Result(c)[e] = "CommandFailed"

\* a call of this service has invoked its operation on e with the filter of
\* that operation attached
Reached(service, e) ==
    \E d \in Active :
        /\ d.service = service
        /\ d.task[e].st = "running"
        /\ d.task[e].op \in {STATE_ON, STATE_OFF}
        /\ d.task[e].seen = state_filter(d.task[e].op)
        /\ context_filter[e] = d.task[e].seen

\* C14: every target of a batch that waits for its handler is eventually
\* reached: its filter is attached and its operation invoked, whatever happens
\* to the other targets and however the targets are interleaved.
C14_EveryTargetReached ==
    \A e \in Entities : \A service \in Services :
        (\E c \in Waiting(e) : c.service = service) ~> Reached(service, e)

\* a batch of two targets of which the one reached first has already failed
\* and the other has been reached nonetheless
C14_Witness ==
    \E c \in Active : \E e \in Entities, o \in Entities :
        /\ c.targets = Entities
        /\ c.task[e].st = "CommandFailed"
        /\ c.task[o].st = "running"
        /\ c.task[o].seen = state_filter(c.task[o].op)
        /\ context_filter[o] = c.task[o].seen

\* what the attributes an entity holds now resolve to
ResolvedNow(self) ==
    IF "_attr_device_class" \in DOMAIN self THEN self["_attr_device_class"]
    ELSE IF "entity_description" \in DOMAIN self
    THEN self["entity_description"].device_class
    ELSE None

\* C16: every read of the device class is resolved from the attributes the
\* entity holds at that read: when the override or the description has been
\* set, changed or removed since the read before, so that the entity now
\* resolves to another value than that read returned, this read returns the
\* new value and not the one returned before.
C16_ReadNeverCached ==
    [][dc_read'.parity # dc_read.parity =>
        LET e == dc_read'.entity_id IN
        /\ dc_read'.result = ResolvedNow(attrs[e])
        /\ (dc_read.entity_id = e /\ dc_read.result # ResolvedNow(attrs[e]))
              => dc_read'.result # dc_read.result]_vars

\* two reads of one entity in a row returned different values, and the later
\* one is what the entity's attributes resolve to
C16_Witness ==
    /\ dc_read.entity_id \in Entities
    /\ dc_read.prev_id = dc_read.entity_id
    /\ dc_read.prev_result # dc_read.result
    /\ dc_read.result = ResolvedNow(attrs[dc_read.entity_id])

\* the direction opposite to the is_on value v
Opposite(v) == IF v = "True" THEN STATE_OFF ELSE STATE_ON

\* C17: toggle reads is_on and attaches the filter in one step: until that
\* step the task holds no direction, the step leaves is_on as it is, and the
\* filter attached names the opposite of is_on as it is when the step ends.
C17_ToggleReadAndAttachAtOnce ==
    [][\A c \in Active : \A e \in c.targets \cap Entities :
        (/\ c.service = SERVICE_TOGGLE
         /\ c.task[e].st = "pending"
         /\ \E t \in Tasks : t # c.task[e] /\ calls' = SetTask(c, e, t)) =>
            /\ c.task[e].op = None
            /\ attr_is_on'[e] = attr_is_on[e]
            /\ context_filter'[e] = state_filter(Opposite(attr_is_on'[e]))
            /\ context_filter'[e] # state_filter(states'[e])]_vars

\* a toggle runs on an entity that is on: the filter "off" is attached and
\* the entity still reports on
C17_Witness ==
    \E c \in Active, e \in Entities :
        /\ c.service = SERVICE_TOGGLE
        /\ c.task[e].st = "running"
        /\ c.task[e].op = STATE_OFF
        /\ attr_is_on[e] = "True"
        /\ states[e] = STATE_ON
        /\ context_filter[e] = state_filter(STATE_OFF)

\* C18: a second toggle begun on an entity while the first toggle's operation
\* is in flight and nothing has reported a new state reads the same is_on
\* and goes the same way: both operations are the one opposite to the
\* original state, and once both have succeeded the entity is in the toggled
\* state, not back in the original one.
C18_OverlappingTogglesGoOneWay ==
    \A e \in Entities :
        LET t == toggled[e] IN
        t.overlap # 0 =>
            LET d == IF t.before[1] = STATE_ON THEN STATE_OFF ELSE STATE_ON IN
            /\ \A c \in InFlight(e) :
                  c.service = SERVICE_TOGGLE /\ c.task[e].op = d
            /\ t.busy => InFlightCount(e) = t.overlap
            /\ t.overlap = 1 =>
                  /\ states[e] = d
                  /\ states[e] # t.before[1]
                  /\ is_on(e) <=> (t.before[1] = STATE_OFF)

\* both of two overlapping toggles of an entity have succeeded
C18_Witness ==
    \E e \in Entities :
        /\ toggled[e].overlap = 1
        /\ ~toggled[e].busy
        /\ InFlight(e) = {}

\* C19: the filter of an entity changes only in the step in which a command
\* is invoked on it, and then to the filter of that command: no ending of an
\* operation (success, failure, cancellation), no return of a call and no
\* driver report clears or changes it, and a state change of the entity that
\* no command invoked in this step goes with the filter left as it was.
C19_FilterNeverCleared ==
    [][\A e \in Entities :
        /\ context_filter'[e] # context_filter[e] =>
              \E c \in Active, op \in {STATE_ON, STATE_OFF} :
                  Begun(c, e, op) /\ context_filter'[e] = state_filter(op)
        /\ context_filter[e] \in Filters => context_filter'[e] \in Filters
        /\ states'[e] # states[e] =>
              EventFilter(e) = context_filter'[e]]_vars

\* every call has returned, and an entity that carries the filter "on" of a
\* past command reports off
C19_Witness ==
    \E e \in Entities :
        /\ calls = EmptyBag
        /\ context_filter[e] = state_filter(STATE_ON)
        /\ states[e] = STATE_OFF
        /\ confirmed[e] = STATE_OFF

====
